---- MODULE Spec2Model ----
(***************************************************************************)
(* Decision-analysis engine: the results aggregator (ResultsAnalyzer of    *)
(* src/results-analyzer.js) as a state machine.  The analyzer's state is   *)
(* its recommendation list, its analysis type and its timestamp; the       *)
(* derived reads (frequency map, final recommendation, statistics,         *)
(* conflict test) are operators over that state, computed the way the      *)
(* JavaScript computes them.                                               *)
(*                                                                         *)
(* Strategy names are strings.  The frequency map is a plain JavaScript    *)
(* object, so its enumeration order is the language's own-property order:  *)
(* array-index names ("2", "10") first, ascending by numeric value, then   *)
(* the other names in creation order.  Names are taken outside the member  *)
(* names of Object.prototype ("constructor", "__proto__", ...), for which  *)
(* `frequency[name] || 0` does not read a count.                           *)
(*                                                                         *)
(* count / total * 100 is modelled exactly, as the fraction                *)
(* (100 * count) / total; for totals below 40 the IEEE-754 double          *)
(* computation compares with 70 and 30 and rounds exactly as the fraction  *)
(* does (the first disagreement is 23 / 40).                               *)
(***************************************************************************)
EXTENDS Integers, Sequences, FiniteSets, TLC

VARIABLES recommendations, timestamp, analysisType, lastOp, clears,
          matrix, criterion, result, call, app, document

\* the fields of the ResultsAnalyzer, the operation last applied to it and
\* the number of clear() calls in a row
analyzerVars == <<recommendations, timestamp, analysisType, lastOp, clears>>

\* the DecisionMatrix, the criterion last constructed, and the last call made
\* to the criteria or to the matrix queries with its outcome
criteriaVars == <<matrix, criterion, result, call>>

\* the fields of the DecisionAnalysisApp besides its matrix and its
\* analyzer, and the page: the values of its inputs and the timeouts pending
appVars == <<app, document>>

vars == <<recommendations, timestamp, analysisType, lastOp, clears,
          matrix, criterion, result, call, app, document>>

----------------------------------------------------------------------------
(* Bounds of the model *)

\* longest recommendation list explored with arbitrary inputs
MaxRecs == 4

\* longest recommendation list explored when equal strategies arrive in runs
MaxRun == 23

----------------------------------------------------------------------------
(* Values *)

\* the sentinel stored for a missing strategy (the source's Russian literal
\* for "undetermined", transliterated)
Undetermined == "Ne opredeleno"

\* JavaScript null
Null == "null"

\* values new Date().toISOString() may return
Times == {"t1", "t2"}

\* strategy names passed to addRecommendation; "" stands for a falsy argument
PlainNames == {"A", "B"}

\* strategy names that are canonical array indices
IndexNames == {"2", "10"}

StrategyInputs == PlainNames \cup IndexNames \cup {"", Undetermined}

\* strategy names passed when equal strategies arrive in runs
RunInputs == <<"A", "B", "">>

CriterionTypes == {"wald"}

AnalysisTypes == {"", "uncertainty", "risk"}

\* numeric value of the names that are canonical array indices
ArrayIndexValue == ("2" :> 2) @@ ("10" :> 10)

IsArrayIndex(key) == key \in DOMAIN ArrayIndexValue

\* percentage thresholds of the confidence bands
HighThreshold == 70

LowThreshold == 30

\* Math.max() of no arguments; every count is above it
NegInfinity == -1

----------------------------------------------------------------------------
(* A plain JavaScript object used as a map: its own properties as a        *)
(* sequence of <<key, value>> in creation order.                           *)

EmptyObject == <<>>

HasOwn(obj, key) == \E i \in DOMAIN obj : obj[i][1] = key

\* the count read as 0 whatever the object holds
GetOrZero_AlwaysZero(obj, key) == 0

\* obj[key] || 0
GetOrZero(obj, key) ==
    IF HasOwn(obj, key)
    THEN LET i == CHOOSE j \in DOMAIN obj : obj[j][1] = key IN obj[i][2]
    ELSE 0

\* obj[key] = value
Put(obj, key, value) ==
    IF HasOwn(obj, key)
    THEN [i \in DOMAIN obj |-> IF obj[i][1] = key THEN <<key, value>> ELSE obj[i]]
    ELSE Append(obj, <<key, value>>)

IsIndexEntry(e) == IsArrayIndex(e[1])

IsNameEntry(e) == ~IsArrayIndex(e[1])

RECURSIVE AscendingByIndex(_)
AscendingByIndex(es) ==
    IF es = <<>> THEN <<>>
    ELSE LET m == CHOOSE i \in DOMAIN es :
                    \A j \in DOMAIN es :
                        ArrayIndexValue[es[i][1]] <= ArrayIndexValue[es[j][1]]
             rest == [k \in 1..(Len(es) - 1) |-> IF k < m THEN es[k] ELSE es[k + 1]]
         IN  <<es[m]>> \o AscendingByIndex(rest)

\* Object.entries(obj): array-index keys ascending, then the others in
\* creation order
ObjectEntries(obj) ==
    AscendingByIndex(SelectSeq(obj, IsIndexEntry)) \o SelectSeq(obj, IsNameEntry)

\* Object.values(obj)
ObjectValues(obj) ==
    LET es == ObjectEntries(obj) IN [i \in DOMAIN es |-> es[i][2]]

\* Object.keys(obj)
ObjectKeys(obj) ==
    LET es == ObjectEntries(obj) IN [i \in DOMAIN es |-> es[i][1]]

----------------------------------------------------------------------------
(* Array helpers *)

\* number of leading entries whose count is at least c
RECURSIVE LeadingAtLeast(_, _)
LeadingAtLeast(es, c) ==
    IF es = <<>> \/ es[1][2] < c THEN 0
    ELSE 1 + LeadingAtLeast(Tail(es), c)

\* entries.sort((a, b) => b[1] - a[1]): stable, descending by count
RECURSIVE SortByCountDesc(_)
SortByCountDesc(es) ==
    IF es = <<>> THEN <<>>
    ELSE LET n      == Len(es)
             sorted == SortByCountDesc(SubSeq(es, 1, n - 1))
             x      == es[n]
             k      == LeadingAtLeast(sorted, x[2])
         IN  SubSeq(sorted, 1, k) \o <<x>> \o SubSeq(sorted, k + 1, n - 1)

\* Math.max(...values)
RECURSIVE MathMax(_)
MathMax(values) ==
    IF values = <<>> THEN NegInfinity
    ELSE LET m == MathMax(Tail(values))
         IN  IF values[1] > m THEN values[1] ELSE m

\* Math.floor where the source has Math.round
MathRound_Floor(num, den) == num \div den

\* Math.round(num / den) for num >= 0, den > 0
MathRound(num, den) == (2 * num + den) \div (2 * den)

----------------------------------------------------------------------------
(* ResultsAnalyzer: reads.  Each takes the fields of the analyzer it reads  *)
(* as arguments (recs is this.recommendations).                            *)

\* the test without its comparison against the sentinel
CountsAsStrategy_SentinelCounted(strategy) == strategy /= ""

\* the test of getFrequencyAnalysis: rec.strategy && rec.strategy !== sentinel
CountsAsStrategy(strategy) == strategy /= "" /\ strategy /= Undetermined

\* the filter of getStatistics: rec.strategy && rec.strategy !== sentinel
IsValidRecommendation(rec) == rec.strategy /= "" /\ rec.strategy /= Undetermined

\* the forEach of getFrequencyAnalysis over the recommendations recs,
\* accumulating into the object frequency
RECURSIVE TallyStrategies(_, _)
TallyStrategies(recs, frequency) ==
    IF recs = <<>> THEN frequency
    ELSE LET s == recs[1].strategy
         IN  TallyStrategies(Tail(recs),
                 IF CountsAsStrategy(s)
                 THEN Put(frequency, s, GetOrZero(frequency, s) + 1)
                 ELSE frequency)

getFrequencyAnalysis(recs) == TallyStrategies(recs, EmptyObject)

\* the bands taken on the rounded percentage
Confidence_OnRounded(count, total) ==
    LET percentage == MathRound(100 * count, total)
        afterHigh  == IF percentage >= HighThreshold THEN "high" ELSE "medium"
    IN  IF percentage <= LowThreshold THEN "low" ELSE afterHigh

\* the confidence band of a winner cited count times out of total
Confidence(count, total) ==
    LET afterHigh == IF 100 * count >= HighThreshold * total THEN "high" ELSE "medium"
    IN  IF 100 * count <= LowThreshold * total THEN "low" ELSE afterHigh

\* the empty-map record with a literal 0 for total
EmptyRecommendation_ZeroTotal(recs) ==
    [strategy   |-> Null,
     frequency  |-> 0,
     total      |-> 0,
     percentage |-> 0,
     confidence |-> "low"]

\* the record returned when the frequency map is empty
EmptyRecommendation(recs) ==
    [strategy   |-> Null,
     frequency  |-> 0,
     total      |-> Len(recs),
     percentage |-> 0,
     confidence |-> "low"]

getFinalRecommendation(recs) ==
    LET frequency == getFrequencyAnalysis(recs)
        entries   == ObjectEntries(frequency)
    IN  IF Len(entries) = 0 THEN EmptyRecommendation(recs)
        ELSE LET sorted   == SortByCountDesc(entries)
                 strategy == sorted[1][1]
                 count    == sorted[1][2]
                 total    == Len(recs)
                 hasTie   == Len(sorted) > 1 /\ sorted[2][2] = count
                 Tied(e)  == e[2] = count
                 tied     == SelectSeq(sorted, Tied)
             IN  [strategy     |-> strategy,
                  frequency    |-> count,
                  total        |-> total,
                  percentage   |-> MathRound(100 * count, total),
                  confidence   |-> Confidence(count, total),
                  hasTie       |-> hasTie,
                  alternatives |-> IF hasTie
                                   THEN [i \in DOMAIN tied |-> tied[i][1]]
                                   ELSE <<>>]

\* the conflict test with > 0 for > 1
hasConflicts_AnyMaximum(recs) ==
    LET values  == ObjectValues(getFrequencyAnalysis(recs))
        maxFreq == MathMax(values)
        IsMax(freq) == freq = maxFreq
    IN  Len(SelectSeq(values, IsMax)) > 0

hasConflicts(recs) ==
    LET values  == ObjectValues(getFrequencyAnalysis(recs))
        maxFreq == MathMax(values)
        IsMax(freq) == freq = maxFreq
    IN  Len(SelectSeq(values, IsMax)) > 1

\* getStatistics on an analyzer whose fields are recs, type and stamp, when
\* new Date().toISOString() returns now
getStatistics(recs, type, stamp, now) ==
    LET frequency == getFrequencyAnalysis(recs)
    IN  [totalCriteria        |-> Len(recs),
         validRecommendations |-> Len(SelectSeq(recs, IsValidRecommendation)),
         uniqueStrategies     |-> Len(ObjectKeys(frequency)),
         mostFrequent         |-> getFinalRecommendation(recs),
         distribution         |-> frequency,
         analysisType         |-> type,
         timestamp            |-> IF stamp /= Null THEN stamp ELSE now]

----------------------------------------------------------------------------
(* JavaScript numbers.  A number is a pair <<n, d>>: the fraction n / d in  *)
(* lowest terms when d > 0, Infinity as <<1, 0>>, -Infinity as <<-1, 0>>    *)
(* and NaN as <<0, 0>>.  Payoffs are integers and the parameters explored   *)
(* are dyadic fractions, for which double arithmetic is exact; for the      *)
(* remaining fractions (1 / 3) the model is the exact value of the same     *)
(* sequence of operations.                                                  *)

Fin(n) == <<n, 1>>

PosInfinity == <<1, 0>>

NegInfinityNum == <<-1, 0>>

NaN == <<0, 0>>

IsNaN(x) == x = NaN

IsFinite(x) == x[2] > 0

Abs(n) == IF n < 0 THEN -n ELSE n

Sign(n) == IF n < 0 THEN -1 ELSE IF n > 0 THEN 1 ELSE 0

RECURSIVE Gcd(_, _)
Gcd(a, b) == IF b = 0 THEN a ELSE Gcd(b, a % b)

\* the fraction n / d, d > 0, in lowest terms
Fraction(n, d) ==
    LET g == Gcd(Abs(n), d) IN <<n \div g, d \div g>>

\* a + b
NumAdd(a, b) ==
    IF IsNaN(a) \/ IsNaN(b) THEN NaN
    ELSE IF ~IsFinite(a) /\ ~IsFinite(b) THEN (IF a = b THEN a ELSE NaN)
    ELSE IF ~IsFinite(a) THEN a
    ELSE IF ~IsFinite(b) THEN b
    ELSE Fraction(a[1] * b[2] + b[1] * a[2], a[2] * b[2])

\* -a
NumNeg(a) == <<-a[1], a[2]>>

\* a - b
NumSub(a, b) == NumAdd(a, NumNeg(b))

\* a * b
NumMul(a, b) ==
    IF IsNaN(a) \/ IsNaN(b) THEN NaN
    ELSE IF ~IsFinite(a) \/ ~IsFinite(b)
         THEN <<Sign(a[1]) * Sign(b[1]), 0>>
    ELSE Fraction(a[1] * b[1], a[2] * b[2])

\* a / b for finite a and b (a zero divisor is +0)
NumDiv(a, b) ==
    IF b[1] = 0 THEN <<Sign(a[1]), 0>>
    ELSE Fraction(Sign(b[1]) * a[1] * b[2], a[2] * Abs(b[1]))

\* a < b
NumLt(a, b) ==
    IF IsNaN(a) \/ IsNaN(b) \/ a = b THEN FALSE
    ELSE IF a = NegInfinityNum \/ b = PosInfinity THEN TRUE
    ELSE IF a = PosInfinity \/ b = NegInfinityNum THEN FALSE
    ELSE a[1] * b[2] < b[1] * a[2]

\* a > b
NumGt(a, b) == NumLt(b, a)

\* a <= b
NumLeq(a, b) == ~IsNaN(a) /\ ~IsNaN(b) /\ ~NumLt(b, a)

\* a === b
StrictEq(a, b) == ~IsNaN(a) /\ a = b

\* the truthiness of a number: 0 and NaN are falsy
Truthy(a) == a[1] /= 0

\* Math.max(...values) over numbers
RECURSIVE NumMax(_)
NumMax(values) ==
    IF values = <<>> THEN NegInfinityNum
    ELSE LET m == NumMax(Tail(values))
             v == values[1]
         IN  IF IsNaN(v) \/ IsNaN(m) THEN NaN
             ELSE IF NumGt(v, m) THEN v ELSE m

\* Math.min(...values) over numbers
RECURSIVE NumMin(_)
NumMin(values) ==
    IF values = <<>> THEN PosInfinity
    ELSE LET m == NumMin(Tail(values))
             v == values[1]
         IN  IF IsNaN(v) \/ IsNaN(m) THEN NaN
             ELSE IF NumLt(v, m) THEN v ELSE m

\* values.lastIndexOf(x) in the place of indexOf
IndexOf_Last(values, x) ==
    IF \E i \in DOMAIN values : StrictEq(values[i], x)
    THEN (CHOOSE i \in DOMAIN values :
              /\ StrictEq(values[i], x)
              /\ \A j \in (i + 1)..Len(values) : ~StrictEq(values[j], x)) - 1
    ELSE -1

\* values.indexOf(x): 0-based position of the first element === x, or -1
IndexOf(values, x) ==
    IF \E i \in DOMAIN values : StrictEq(values[i], x)
    THEN (CHOOSE i \in DOMAIN values :
              /\ StrictEq(values[i], x)
              /\ \A j \in 1..(i - 1) : ~StrictEq(values[j], x)) - 1
    ELSE -1

\* an array position that was never assigned (a hole of a sparse array)
Hole == <<-1, -1>>

\* array[index] for a 0-based index; reading outside the array or reading a
\* hole gives undefined, which every numeric use turns into NaN
ElementAt(array, index) ==
    IF index + 1 \in DOMAIN array /\ array[index + 1] /= Hole
    THEN array[index + 1]
    ELSE NaN

\* ...array as the arguments of Math.min and Math.max: a hole is spread as
\* undefined
Spread(array) == [k \in DOMAIN array |-> ElementAt(array, k - 1)]

----------------------------------------------------------------------------
(* DecisionMatrix (src/unnamed/part_001).  A matrix is the record of its    *)
(* fields strategiesCount, statesCount, data (rows of numbers) and          *)
(* strategies (row names); the column names are read by no computation.     *)
(* Indices are the source's 0-based indices.                                *)

\* largest strategiesCount and statesCount of the matrices explored
MaxStrategies == 2

MaxStates == 2

\* payoffs stored in the cells of the matrices explored
CellValues == {Fin(-1), Fin(2)}

\* the names initialize() generates (the source's word for "Region",
\* transliterated, followed by the letter String.fromCharCode(65 + i))
StrategyNames == <<"Region A", "Region B", "Region C", "Region D">>

\* the names loadExampleData() of DecisionMatrix assigns
ExampleNames == <<"Region1", "Region2", "Region3", "Region4">>

\* the DecisionMatrix left by the constructor or updateDimensions with
\* counts S and N, once its cells hold the rows data
MatrixOf(S, N, data) ==
    [strategiesCount |-> S,
     statesCount     |-> N,
     data            |-> data,
     strategies      |-> SubSeq(StrategyNames, 1, S)]

\* new DecisionMatrix(): 4 strategies, 5 states, every cell 0
DefaultMatrix ==
    MatrixOf(4, 5, [i \in 1..4 |-> [j \in 1..5 |-> Fin(0)]])

\* the matrix after the application's loadExampleData()
ScenarioMatrix ==
    MatrixOf(4, 4,
        << <<Fin(320), Fin(780), Fin(640), Fin(500)>>,
           <<Fin(900), Fin(400), Fin(300), Fin(700)>>,
           <<Fin(600), Fin(950), Fin(200), Fin(450)>>,
           <<Fin(500), Fin(550), Fin(850), Fin(300)>> >>)

\* the matrix after DecisionMatrix.loadExampleData(): statesCount is 4 and
\* every row holds 5 cells
ExampleMatrix ==
    [strategiesCount |-> 4,
     statesCount     |-> 4,
     data            |->
        << <<Fin(713), Fin(839), Fin(1007), Fin(1133), Fin(850)>>,
           <<Fin(857), Fin(806), Fin(974), Fin(1100), Fin(920)>>,
           <<Fin(1049), Fin(998), Fin(930), Fin(1056), Fin(880)>>,
           <<Fin(1193), Fin(1142), Fin(1074), Fin(1023), Fin(950)>> >>,
     strategies      |-> ExampleNames]

\* the matrices explored: every matrix of at most MaxStrategies rows and
\* MaxStates columns over CellValues, and the two example matrices
Matrices ==
    {MatrixOf(S, N, data) :
        <<S, N, data>> \in UNION {
            {<<S0, N0, d>> : d \in [1..S0 -> [1..N0 -> CellValues]]} :
                <<S0, N0>> \in (0..MaxStrategies) \X (0..MaxStates)}}
    \cup {ScenarioMatrix, ExampleMatrix}

\* the element of data at a position that was never assigned; no row is a
\* single hole, a row being filled or extended by an assignment to its last
\* position
NoRow == <<Hole>>

\* this.data[rowIndex] is a row
HasRow(m, rowIndex) ==
    rowIndex + 1 \in DOMAIN m.data /\ m.data[rowIndex + 1] /= NoRow

\* getRowMin with Math.min of an empty list for a missing row
getRowMin_EmptyForMissing(m, rowIndex) ==
    IF ~HasRow(m, rowIndex) THEN NumMin(<<>>)
    ELSE NumMin(Spread(m.data[rowIndex + 1]))

getRowMin(m, rowIndex) ==
    IF ~HasRow(m, rowIndex) THEN Fin(0)
    ELSE NumMin(Spread(m.data[rowIndex + 1]))

\* getRowMax with Math.min in the place of Math.max
getRowMax_AsMin(m, rowIndex) ==
    IF ~HasRow(m, rowIndex) THEN Fin(0)
    ELSE NumMin(Spread(m.data[rowIndex + 1]))

getRowMax(m, rowIndex) ==
    IF ~HasRow(m, rowIndex) THEN Fin(0)
    ELSE NumMax(Spread(m.data[rowIndex + 1]))

\* the loop of getColumnMax from row i (0-based) on, max being the maximum
\* so far
RECURSIVE ColumnMaxFrom(_, _, _, _)
ColumnMaxFrom(m, colIndex, i, max) ==
    IF i >= m.strategiesCount THEN max
    ELSE LET cell == IF HasRow(m, i)
                     THEN ElementAt(m.data[i + 1], colIndex)
                     ELSE NaN
         IN  ColumnMaxFrom(m, colIndex, i + 1,
                           IF NumGt(cell, max) THEN cell ELSE max)

getColumnMax(m, colIndex) ==
    LET max == ColumnMaxFrom(m, colIndex, 0, NegInfinityNum)
    IN  IF max = NegInfinityNum THEN Fin(0) ELSE max

----------------------------------------------------------------------------
(* Decision criteria (src/decision-criteria.js).  An optional value is a    *)
(* sequence: empty for undefined, one element for a value.  A criterion is  *)
(* the record of its kind and of the fields its constructor assigns; the    *)
(* outcome of a call is a record whose status tells a returned value from a *)
(* thrown error.                                                            *)

Absent == <<>>

Present(v) == <<v>>

Half == Fraction(1, 2)

Criterion(kind, alpha, probabilities) ==
    [kind |-> kind, alpha |-> alpha, probabilities |-> probabilities]

\* no criterion constructed
NoCriterion == Criterion("none", Absent, Absent)

WaldCriterion == Criterion("wald", Absent, Absent)

MaximaxCriterion == Criterion("maximax", Absent, Absent)

SavageCriterion == Criterion("savage", Absent, Absent)

LaplaceCriterion == Criterion("laplace", Absent, Absent)

\* new HurwitzCriterion(alpha): the parameter default applies to undefined
HurwitzCriterion(alpha) ==
    Criterion("hurwitz",
              Present(IF alpha = Absent THEN Half ELSE alpha[1]), Absent)

\* new BayesCriterion(probabilities): the argument is stored as given
BayesCriterion(probabilities) == Criterion("bayes", Absent, probabilities)

Fault(op, error) == [status |-> "fault", op |-> op, error |-> error]

TypeError == "TypeError"

\* some row below strategiesCount is undefined
RowMissing(m) == \E i \in 1..m.strategiesCount : ~HasRow(m, i - 1)

\* the closing lines every calculate shares: the position of the optimal
\* value, the name at that position or the sentinel, and formatResult
Result(m, type, values, optimalValue) ==
    LET strategyIndex == IndexOf(values, optimalValue)
    IN  [status       |-> "returned",
         op           |-> "calculate",
         type         |-> type,
         values       |-> values,
         optimalIndex |-> strategyIndex,
         optimalValue |-> optimalValue,
         strategy     |-> IF strategyIndex + 1 \in DOMAIN m.strategies
                          THEN m.strategies[strategyIndex + 1]
                          ELSE Undetermined]

WaldCalculate(m) ==
    IF RowMissing(m) THEN Fault("calculate", TypeError)
    ELSE LET values == [i \in 1..m.strategiesCount |-> getRowMin(m, i - 1)]
         IN  Result(m, "wald", values, NumMax(values))

MaximaxCalculate(m) ==
    IF RowMissing(m) THEN Fault("calculate", TypeError)
    ELSE LET values == [i \in 1..m.strategiesCount |-> getRowMax(m, i - 1)]
         IN  Result(m, "maximax", values, NumMax(values))

\* the inner loop of Savage from position j (1-based) on: the largest risk
\* found by the comparison risk > maxRisk
RECURSIVE MaxRiskFrom(_, _, _)
MaxRiskFrom(risks, j, maxRisk) ==
    IF j > Len(risks) THEN maxRisk
    ELSE MaxRiskFrom(risks, j + 1,
                     IF NumGt(risks[j], maxRisk) THEN risks[j] ELSE maxRisk)

SavageRisks(m, i) ==
    [j \in 1..m.statesCount |->
        NumSub(getColumnMax(m, j - 1), ElementAt(m.data[i], j - 1))]

SavageCalculate(m) ==
    IF m.statesCount >= 1 /\ RowMissing(m) THEN Fault("calculate", TypeError)
    ELSE LET riskValues ==
                 [i \in 1..m.strategiesCount |->
                     MaxRiskFrom(SavageRisks(m, i), 1, NegInfinityNum)]
         IN  Result(m, "savage", riskValues, NumMin(riskValues))

\* the Hurwitz score with the weights of the two extremes exchanged
HurwitzValue_Exchanged(alpha, minVal, maxVal) ==
    NumAdd(NumMul(alpha, minVal), NumMul(NumSub(Fin(1), alpha), maxVal))

HurwitzValue(alpha, minVal, maxVal) ==
    NumAdd(NumMul(alpha, maxVal), NumMul(NumSub(Fin(1), alpha), minVal))

HurwitzCalculate(alpha, m) ==
    IF RowMissing(m) THEN Fault("calculate", TypeError)
    ELSE LET values ==
                 [i \in 1..m.strategiesCount |->
                     HurwitzValue(alpha, getRowMin(m, i - 1),
                                  getRowMax(m, i - 1))]
         IN  Result(m, "hurwitz", values, NumMax(values))

\* expected += term, from position j (1-based) on
RECURSIVE SumFrom(_, _, _)
SumFrom(terms, j, expected) ==
    IF j > Len(terms) THEN expected
    ELSE SumFrom(terms, j + 1, NumAdd(expected, terms[j]))

\* the read of probabilities[j] or its toFixed throws
BayesFaults(probabilities, m) ==
    /\ m.strategiesCount >= 1
    /\ m.statesCount >= 1
    /\ \/ RowMissing(m)
       \/ probabilities = Absent
       \/ Len(probabilities[1]) < m.statesCount

BayesCalculate(probabilities, m) ==
    IF BayesFaults(probabilities, m) THEN Fault("calculate", TypeError)
    ELSE LET values ==
                 [i \in 1..m.strategiesCount |->
                     SumFrom([j \in 1..m.statesCount |->
                                 NumMul(ElementAt(m.data[i], j - 1),
                                        probabilities[1][j])],
                             1, Fin(0))]
         IN  Result(m, "bayes", values, NumMax(values))

\* the Laplace weight taken over the strategies
LaplaceProb_OverStrategies(m) == NumDiv(Fin(1), Fin(m.strategiesCount))

LaplaceProb(m) == NumDiv(Fin(1), Fin(m.statesCount))

LaplaceCalculate(m) ==
    IF m.statesCount >= 1 /\ RowMissing(m) THEN Fault("calculate", TypeError)
    ELSE LET values ==
                 [i \in 1..m.strategiesCount |->
                     SumFrom([j \in 1..m.statesCount |->
                                 NumMul(ElementAt(m.data[i], j - 1),
                                        LaplaceProb(m))],
                             1, Fin(0))]
         IN  Result(m, "laplace", values, NumMax(values))

\* new DecisionAnalysisApp(): the fields besides matrix and resultsAnalyzer
NewApp ==
    [currentStep       |-> 1,
     selectedCondition |-> "",
     probabilities     |-> <<>>,
     alpha             |-> Half]

\* the page the application is constructed on: the numbers parseInt reads
\* from the inputs 'strategies' and 'states', the text of the input 'alpha',
\* the numbers parseFloat reads from the inputs prob-0, prob-1, ... (NaN
\* for a text that is not a number) and the steps of the timeouts goToStep
\* has set that have not run yet
Page ==
    [strategies |-> 4,
     states     |-> 5,
     alpha      |-> "0.5",
     prob       |-> <<>>,
     timeouts   |-> <<>>]

\* no call made yet
NoResult == [status |-> "none"]

NoCall == [op |-> "constructor"]

\* criterion.calculate(matrix)
calculate(c, m) ==
    CASE c.kind = "wald"    -> WaldCalculate(m)
      [] c.kind = "maximax" -> MaximaxCalculate(m)
      [] c.kind = "savage"  -> SavageCalculate(m)
      [] c.kind = "hurwitz" -> HurwitzCalculate(c.alpha[1], m)
      [] c.kind = "bayes"   -> BayesCalculate(c.probabilities, m)
      [] c.kind = "laplace" -> LaplaceCalculate(m)

\* the type strings handed to the factory
TypeInputs ==
    {"wald", "WALD", "Maximax", "SAVAGE", "Hurwitz", "hurwitz", "BAYES",
     "Laplace", "minimax", ""}

\* String.prototype.toLowerCase that leaves the letters as they are
toLowerCase_AsGiven(type) == type

\* String.prototype.toLowerCase on the type strings
toLowerCase(type) ==
    CASE type = "WALD"    -> "wald"
      [] type = "Maximax" -> "maximax"
      [] type = "SAVAGE"  -> "savage"
      [] type = "Hurwitz" -> "hurwitz"
      [] type = "BAYES"   -> "bayes"
      [] type = "Laplace" -> "laplace"
      [] OTHER            -> type

Created(c) == [status |-> "returned", op |-> "createCriterion", criterion |-> c]

\* CriteriaFactory.createCriterion(type, params)
createCriterion(type, params) ==
    LET lower == toLowerCase(type)
    IN  CASE lower = "wald"    -> Created(WaldCriterion)
          [] lower = "maximax" -> Created(MaximaxCriterion)
          [] lower = "savage"  -> Created(SavageCriterion)
          [] lower = "hurwitz" ->
                 Created(HurwitzCriterion(
                     IF params.alpha /= Absent /\ Truthy(params.alpha[1])
                     THEN params.alpha ELSE Present(Half)))
          [] lower = "bayes"   ->
                 IF params.probabilities = Absent
                 THEN Fault("createCriterion",
                            "Probabilities required for Bayes criterion")
                 ELSE Created(BayesCriterion(params.probabilities))
          [] lower = "laplace" -> Created(LaplaceCriterion)
          [] OTHER -> Fault("createCriterion", "Unknown criterion type")

-----
(* ResultsAnalyzer: construction and writes.  lastOp names the last write  *)
(* and clears counts the clear() calls made in a row; neither is read by   *)
(* the program.  A recommendation keeps the fields the analyzer reads (id, *)
(* strategy, type); criterion name, details and the per-record timestamp   *)
(* are payload no operation of the analyzer inspects.                      *)

Init ==
    /\ recommendations = <<>>
    /\ timestamp = Null
    /\ analysisType = ""
    /\ lastOp = "constructor"
    /\ clears = 0
    /\ matrix = DefaultMatrix
    /\ criterion = NoCriterion
    /\ result = NoResult
    /\ call = NoCall
    /\ app = NewApp
    /\ document = Page

\* addRecommendation that stores an empty strategy as it is given
addRecommendation_KeepsEmpty(strategy, criterionType) ==
    /\ recommendations' = Append(recommendations,
           [id       |-> Len(recommendations) + 1,
            strategy |-> strategy,
            type     |-> criterionType])
    /\ lastOp' = "addRecommendation"
    /\ clears' = 0
    /\ UNCHANGED <<timestamp, analysisType>>

addRecommendation(strategy, criterionType) ==
    /\ recommendations' = Append(recommendations,
           [id       |-> Len(recommendations) + 1,
            strategy |-> IF strategy /= "" THEN strategy ELSE Undetermined,
            type     |-> criterionType])
    /\ lastOp' = "addRecommendation"
    /\ clears' = 0
    /\ UNCHANGED <<timestamp, analysisType>>

\* setAnalysisType without its timestamp assignment
setAnalysisType_NoTimestamp(type, now) ==
    /\ analysisType' = type
    /\ lastOp' = "setAnalysisType"
    /\ clears' = 0
    /\ UNCHANGED <<recommendations, timestamp>>

\* setAnalysisType that also starts a fresh recommendation list
setAnalysisType_FreshList(type, now) ==
    /\ analysisType' = type
    /\ timestamp' = now
    /\ recommendations' = <<>>
    /\ lastOp' = "setAnalysisType"
    /\ clears' = 0

setAnalysisType(type, now) ==
    /\ analysisType' = type
    /\ timestamp' = now
    /\ lastOp' = "setAnalysisType"
    /\ clears' = 0
    /\ UNCHANGED recommendations

\* clear that keeps the timestamp
clear_KeepsTimestamp ==
    /\ recommendations' = <<>>
    /\ analysisType' = ""
    /\ lastOp' = "clear"
    /\ clears' = clears + 1
    /\ UNCHANGED timestamp

clear ==
    /\ recommendations' = <<>>
    /\ timestamp' = Null
    /\ analysisType' = ""
    /\ lastOp' = "clear"
    /\ clears' = clears + 1

\* consecutive clear() calls explored
MaxClears == 2

Next ==
    \/ \E s \in StrategyInputs, t \in CriterionTypes :
           /\ Len(recommendations) < MaxRecs
           /\ addRecommendation(s, t)
           /\ UNCHANGED <<criteriaVars, appVars>>
    \/ \E t \in AnalysisTypes, now \in Times :
           setAnalysisType(t, now) /\ UNCHANGED <<criteriaVars, appVars>>
    \/ clears < MaxClears /\ clear /\ UNCHANGED <<criteriaVars, appVars>>

Spec == Init /\ [][Next]_vars

\* position of a stored strategy in the order of RunInputs
RunRank(strategy) ==
    IF strategy = Undetermined THEN Len(RunInputs)
    ELSE CHOOSE k \in DOMAIN RunInputs : RunInputs[k] = strategy

\* the criterion type recorded when equal strategies arrive in runs
RunType == "wald"

\* the same analyzer, driven by a caller whose recommendations for one
\* strategy arrive one after the other (all A, then all B, then the
\* undetermined ones)
NextRuns ==
    \/ \E k \in DOMAIN RunInputs :
           /\ Len(recommendations) < MaxRun
           /\ recommendations /= <<>> =>
                  k >= RunRank(recommendations[Len(recommendations)].strategy)
           /\ addRecommendation(RunInputs[k], RunType)
           /\ UNCHANGED <<criteriaVars, appVars>>
    \/ \E t \in AnalysisTypes, now \in Times :
           setAnalysisType(t, now) /\ UNCHANGED <<criteriaVars, appVars>>
    \/ clears < MaxClears /\ clear /\ UNCHANGED <<criteriaVars, appVars>>

SpecRuns == Init /\ [][NextRuns]_vars

----------------------------------------------------------------------------
(* The criteria and the matrix queries, applied to one matrix.  The matrix  *)
(* is any of Matrices; a caller inspects it with the queries, then          *)
(* constructs criteria, through the factory or directly, and calls          *)
(* calculate on the criterion it holds.                                     *)

\* the values of alpha handed to the factory and to the constructor
Alphas == {Fin(0), Half, Fin(1)}

\* n probabilities 1 / n
UniformVector(n) == [j \in 1..n |-> NumDiv(Fin(1), Fin(n))]

\* the probability vectors handed to the factory and to the constructor:
\* the uniform ones up to two entries more than MaxStates, and one that is
\* not uniform
ProbabilityVectors ==
    {UniformVector(n) : n \in 0..(MaxStates + 2)}
        \cup {<<Fraction(1, 4), Fraction(3, 4)>>}

\* the params objects handed to the factory
ParamsInputs ==
    {[alpha |-> a, probabilities |-> Absent] :
        a \in {Absent} \cup {Present(x) : x \in Alphas}}
    \cup {[alpha |-> Absent, probabilities |-> Present(p)] :
              p \in ProbabilityVectors}

\* the row and column indices handed to the queries
QueryIndices == -1..(MaxStates + 2)

InitCriteria ==
    /\ recommendations = <<>>
    /\ timestamp = Null
    /\ analysisType = ""
    /\ lastOp = "constructor"
    /\ clears = 0
    /\ matrix \in Matrices
    /\ criterion = NoCriterion
    /\ result = NoResult
    /\ call = NoCall
    /\ app = NewApp
    /\ document = Page

\* const criterion = CriteriaFactory.createCriterion(type, params)
CallCreateCriterion(type, params) ==
    /\ call' = [op |-> "createCriterion", type |-> type, params |-> params]
    /\ result' = createCriterion(type, params)
    /\ criterion' = IF result'.status = "returned" THEN result'.criterion
                    ELSE NoCriterion
    /\ UNCHANGED matrix

\* const criterion = new HurwitzCriterion(alpha)
NewHurwitzCriterion(alpha) ==
    /\ call' = [op |-> "new HurwitzCriterion", alpha |-> alpha]
    /\ result' = Created(HurwitzCriterion(alpha))
    /\ criterion' = HurwitzCriterion(alpha)
    /\ UNCHANGED matrix

\* const criterion = new BayesCriterion(probabilities)
NewBayesCriterion(probabilities) ==
    /\ call' = [op |-> "new BayesCriterion", probabilities |-> probabilities]
    /\ result' = Created(BayesCriterion(probabilities))
    /\ criterion' = BayesCriterion(probabilities)
    /\ UNCHANGED matrix

\* criterion.calculate(matrix)
CallCalculate ==
    /\ criterion /= NoCriterion
    /\ call' = [op |-> "calculate"]
    /\ result' = calculate(criterion, matrix)
    /\ UNCHANGED <<matrix, criterion>>

Returned(op, value) == [status |-> "returned", op |-> op, value |-> value]

\* matrix.getRowMin(index), matrix.getRowMax(index), matrix.getColumnMax(index)
CallQuery(index) ==
    /\ criterion = NoCriterion
    /\ \/ /\ call' = [op |-> "getRowMin", index |-> index]
          /\ result' = Returned("getRowMin", getRowMin(matrix, index))
       \/ /\ call' = [op |-> "getRowMax", index |-> index]
          /\ result' = Returned("getRowMax", getRowMax(matrix, index))
       \/ /\ call' = [op |-> "getColumnMax", index |-> index]
          /\ result' = Returned("getColumnMax", getColumnMax(matrix, index))
    /\ UNCHANGED <<matrix, criterion>>

NextCriteria ==
    \/ \E type \in TypeInputs, params \in ParamsInputs :
           CallCreateCriterion(type, params) /\ UNCHANGED <<analyzerVars, appVars>>
    \/ \E alpha \in {Absent} \cup {Present(x) : x \in Alphas} :
           NewHurwitzCriterion(alpha) /\ UNCHANGED <<analyzerVars, appVars>>
    \/ \E probabilities \in
              {Absent} \cup {Present(p) : p \in ProbabilityVectors} :
           NewBayesCriterion(probabilities) /\ UNCHANGED <<analyzerVars, appVars>>
    \/ CallCalculate /\ UNCHANGED <<analyzerVars, appVars>>
    \/ \E index \in QueryIndices : CallQuery(index) /\ UNCHANGED <<analyzerVars, appVars>>

SpecCriteria == InitCriteria /\ [][NextCriteria]_vars

----------------------------------------------------------------------------
(* Quantities the properties are stated in, read off the recommendation    *)
(* list directly rather than through the analyzer's reads.                 *)

\* number of recorded recommendations citing strategy s
Citations(s) ==
    Cardinality({i \in DOMAIN recommendations : recommendations[i].strategy = s})

\* the strategies cited by at least one recommendation, the sentinel apart
CitedStrategies ==
    {recommendations[i].strategy : i \in DOMAIN recommendations} \ {Undetermined}

\* the strategies cited most often
Leaders ==
    {s \in CitedStrategies : \A t \in CitedStrategies : Citations(t) <= Citations(s)}

\* the count of a most cited strategy (0 when none is cited)
WinnerCount ==
    IF Leaders = {} THEN 0 ELSE Citations(CHOOSE s \in Leaders : TRUE)

\* position of the first recommendation citing s
FirstCited(s) ==
    CHOOSE i \in DOMAIN recommendations :
        /\ recommendations[i].strategy = s
        /\ \A j \in 1..(i - 1) : recommendations[j].strategy /= s

\* number of recommendations stored with the sentinel
UndeterminedCount == Citations(Undetermined)

\* the analyzer's reads in the current state
Frequency == getFrequencyAnalysis(recommendations)

Final == getFinalRecommendation(recommendations)

Conflicts == hasConflicts(recommendations)

Statistics(now) == getStatistics(recommendations, analysisType, timestamp, now)

SeqRange(seq) == {seq[i] : i \in DOMAIN seq}

RECURSIVE SumOfCounts(_)
SumOfCounts(es) == IF es = <<>> THEN 0 ELSE es[1][2] + SumOfCounts(Tail(es))

----------------------------------------------------------------------------
(* Properties *)

C2_FirstEncounteredWins ==
    Leaders /= {} =>
        LET w == Final.strategy
        IN  /\ w \in Leaders
            /\ \A s \in Leaders : FirstCited(w) <= FirstCited(s)

\* C3, as stated: in every state the final recommendation has a boolean
\* hasTie and a sequence alternatives, hasTie holds exactly when alternatives
\* has at least 2 elements, and then alternatives is the set of most cited
\* strategies.
C3_TieFieldsInEveryState ==
    LET f == Final
    IN  /\ "hasTie" \in DOMAIN f
        /\ "alternatives" \in DOMAIN f
        /\ f.hasTie \in BOOLEAN
        /\ f.hasTie <=> (Len(f.alternatives) >= 2)
        /\ f.hasTie => (SeqRange(f.alternatives) = Leaders)

\* the truth value JavaScript gives to final.hasTie (undefined is false)
HasTieTruthy ==
    LET f == Final
    IN  "hasTie" \in DOMAIN f /\ f.hasTie

C7_EmptyMapGivesNullStrategy ==
    (\A i \in DOMAIN recommendations : recommendations[i].strategy = Undetermined) =>
        LET f == Final
        IN  /\ Frequency = EmptyObject
            /\ f.strategy = Null
            /\ f.confidence = "low"
            /\ f.percentage = 0
            /\ f.total = Len(recommendations)

\* two recommendations recorded, both undetermined
C7_Witness ==
    /\ Len(recommendations) = 2
    /\ UndeterminedCount = 2
    /\ Final.strategy = Null

\* C8: clear() leaves recommendations empty, timestamp null, analysisType
\* unset, the frequency map empty and the final strategy absent, and a
\* clear() that follows a clear() changes nothing of that state.
C8_ClearTwiceIsClearOnce ==
    [][lastOp' = "clear" =>
          /\ recommendations' = <<>>
          /\ timestamp' = Null
          /\ analysisType' = ""
          /\ \A after \in {recommendations'} :
                 /\ getFrequencyAnalysis(after) = EmptyObject
                 /\ getFinalRecommendation(after).strategy = Null
          /\ lastOp = "clear" =>
                 UNCHANGED <<recommendations, timestamp, analysisType>>]_vars

\* the state after two clear() calls in a row
C8_Witness ==
    /\ clears = 2
    /\ lastOp = "clear"
    /\ recommendations = <<>>
    /\ timestamp = Null

\* C9, as stated: every reachable state is Idle (no recommendations and
\* analysisType unset) or Accumulating (at least one recommendation).
C9_IdleOrAccumulating ==
    recommendations = <<>> => analysisType = ""

\* C9, amended: every reachable state is Idle, Accumulating, or a third
\* state with no recommendations and analysisType set; the third state is
\* entered only by setAnalysisType and has a timestamp, and analysisType is
\* never set while the timestamp is null.
C9_IdleTaggedOrAccumulating ==
    /\ (recommendations = <<>> /\ analysisType /= "") =>
           (lastOp = "setAnalysisType" /\ timestamp /= Null)
    /\ timestamp = Null => analysisType = ""

\* setAnalysisType("risk") on an analyzer that holds no recommendation
C9_Witness ==
    /\ recommendations = <<>>
    /\ analysisType = "risk"
    /\ lastOp = "setAnalysisType"

\* C10: setAnalysisType leaves the recommendation list, and with it the
\* frequency map and the final recommendation, unchanged.
C10_SetAnalysisTypeKeepsRecommendations ==
    [][lastOp' = "setAnalysisType" =>
          \A after \in {recommendations'} :
              /\ after = recommendations
              /\ getFrequencyAnalysis(after) = Frequency
              /\ getFinalRecommendation(after) = Final]_vars

\* setAnalysisType called mid-accumulation
C10_Witness ==
    /\ lastOp = "setAnalysisType"
    /\ Len(recommendations) >= 2
    /\ analysisType = "uncertainty"
    /\ Final.strategy /= Null

----------------------------------------------------------------------------
(* Properties of the criteria, the factory and the matrix queries *)

\* the six criterion identifiers
Kinds == {"wald", "maximax", "savage", "hurwitz", "bayes", "laplace"}

\* the type strings that spell an identifier, in whatever letter case
SpelledAs(kind) ==
    CASE kind = "wald"    -> {"wald", "WALD"}
      [] kind = "maximax" -> {"Maximax"}
      [] kind = "savage"  -> {"SAVAGE"}
      [] kind = "hurwitz" -> {"hurwitz", "Hurwitz"}
      [] kind = "bayes"   -> {"BAYES"}
      [] kind = "laplace" -> {"Laplace"}

\* calculate was the last call and it returned a result
Calculated(kind) ==
    /\ call.op = "calculate"
    /\ criterion.kind = kind
    /\ result.status = "returned"

\* zero strategies, or a row that is missing or holds fewer cells than
\* statesCount
Degenerate(m) ==
    \/ m.strategiesCount = 0
    \/ \E i \in 1..m.strategiesCount :
           i \notin DOMAIN m.data \/ Len(m.data[i]) < m.statesCount

\* the numbers the rows of m hold at column colIndex (0-based)
ColumnCells(m, colIndex) ==
    {m.data[i][colIndex + 1] :
        i \in {r \in 1..m.strategiesCount :
                  r \in DOMAIN m.data /\ colIndex + 1 \in DOMAIN m.data[r]}}

\* C11: addRecommendation is accepted in every state for every input; a call
\* makes the list one longer, leaves the recommendations already there as
\* they were, and stores the strategy given, or the undetermined sentinel
\* when the strategy given is empty.
C11_AddAppendsOneNormalised ==
    /\ [](\A s \in StrategyInputs, t \in CriterionTypes :
             ENABLED (addRecommendation(s, t) /\ UNCHANGED <<criteriaVars, appVars>>))
    /\ [][\A s \in StrategyInputs, t \in CriterionTypes :
             addRecommendation(s, t) =>
                 \A after \in {recommendations'} :
                     /\ Len(after) = Len(recommendations) + 1
                     /\ SubSeq(after, 1, Len(recommendations)) = recommendations
                     /\ after[Len(after)].strategy =
                            (IF s = "" THEN Undetermined ELSE s)]_vars

\* an empty strategy added after a recommendation for A
C11_Witness ==
    /\ lastOp = "addRecommendation"
    /\ Len(recommendations) = 2
    /\ recommendations[1].strategy = "A"
    /\ recommendations[2].strategy = Undetermined

\* C12: on a matrix with at least one strategy and one state, Hurwitz with
\* alpha = 0 returns Wald's values and optimal strategy, and Hurwitz with
\* alpha = 1 returns Maximax's.
C12_HurwitzExtremes ==
    (/\ Calculated("hurwitz")
     /\ matrix.strategiesCount >= 1
     /\ matrix.statesCount >= 1) =>
        /\ criterion.alpha = Present(Fin(0)) =>
               /\ result.values = WaldCalculate(matrix).values
               /\ result.strategy = WaldCalculate(matrix).strategy
        /\ criterion.alpha = Present(Fin(1)) =>
               /\ result.values = MaximaxCalculate(matrix).values
               /\ result.strategy = MaximaxCalculate(matrix).strategy

\* Hurwitz with alpha = 0 calculated on a matrix whose row minima differ
\* from its row maxima
C12_Witness ==
    /\ Calculated("hurwitz")
    /\ criterion.alpha = Present(Fin(0))
    /\ matrix.strategiesCount = 2
    /\ matrix.statesCount = 2
    /\ result.values = <<Fin(-1), Fin(2)>>
    /\ MaximaxCalculate(matrix).values = <<Fin(2), Fin(2)>>
    /\ result.strategy = "Region B"

\* C13, as stated: the factory's Hurwitz criterion has the alpha of params
\* when params has one, 0 and 1 included, and 0.5 only when it has none; so
\* with alpha = 0 its scores are Wald's.
C13_FactoryKeepsGivenAlpha ==
    (call.op = "createCriterion" /\ call.type = "hurwitz") =>
        /\ result.status = "returned"
        /\ criterion.kind = "hurwitz"
        /\ criterion.alpha =
               (IF call.params.alpha = Absent THEN Present(Half)
                ELSE call.params.alpha)
        /\ (/\ call.params.alpha = Present(Fin(0))
            /\ matrix.strategiesCount >= 1
            /\ matrix.statesCount >= 1) =>
               calculate(criterion, matrix).values =
                   WaldCalculate(matrix).values

\* C14: the factory returns a criterion of the kind its type spells, in
\* whatever letter case; it throws for a type that spells none of the six
\* kinds, and for bayes without probabilities, and then no criterion exists.
C14_FactoryByType ==
    call.op = "createCriterion" =>
        /\ \A k \in Kinds :
               call.type \in SpelledAs(k) =>
                   IF k = "bayes" /\ call.params.probabilities = Absent
                   THEN result.status = "fault" /\ criterion = NoCriterion
                   ELSE result.status = "returned" /\ criterion.kind = k
        /\ (\A k \in Kinds : call.type \notin SpelledAs(k)) =>
               (result.status = "fault" /\ criterion = NoCriterion)

\* the factory called with WALD
C14_Witness ==
    /\ call.op = "createCriterion"
    /\ call.type = "WALD"
    /\ result.status = "returned"
    /\ criterion = WaldCriterion

\* C15, as stated: BayesCriterion.calculate throws whenever its probability
\* vector is missing or has a length other than statesCount.
C15_BayesFaultsOnWrongLength ==
    (/\ call.op = "calculate"
     /\ criterion.kind = "bayes"
     /\ \/ criterion.probabilities = Absent
        \/ Len(criterion.probabilities[1]) /= matrix.statesCount) =>
        result.status = "fault"

\* C16, as stated: on a matrix with no strategy or no state every criterion
\* returns, and the strategy it returns is the undetermined sentinel.
C16_EmptyMatrixUndetermined ==
    (/\ call.op = "calculate"
     /\ matrix.strategiesCount = 0 \/ matrix.statesCount = 0) =>
        /\ result.status = "returned"
        /\ result.strategy = Undetermined

\* C17, as stated: on a degenerate matrix every criterion returns no values,
\* an optimalIndex that is not a number, and the undetermined sentinel.
C17_DegenerateGivesAbsentIndex ==
    (call.op = "calculate" /\ Degenerate(matrix)) =>
        /\ result.status = "returned"
        /\ result.values = <<>>
        /\ result.optimalIndex \notin Int
        /\ result.strategy = Undetermined

C19_WaldAtMostMaximax ==
    Calculated("wald") =>
        \A i \in 1..matrix.strategiesCount :
            NumLeq(result.values[i], MaximaxCalculate(matrix).values[i])

\* C20: on a matrix with at least one state Laplace returns the values and
\* the optimalIndex of Bayes with statesCount probabilities 1 / statesCount.
C20_LaplaceIsUniformBayes ==
    (/\ call.op = "calculate"
     /\ criterion.kind = "laplace"
     /\ matrix.statesCount >= 1) =>
        \A bayes \in {BayesCalculate(Present(UniformVector(matrix.statesCount)),
                                    matrix)} :
            /\ result.status = "returned"
            /\ bayes.status = "returned"
            /\ result.values = bayes.values
            /\ result.optimalIndex = bayes.optimalIndex

\* Laplace calculated on the 4 x 4 scenario matrix
C20_Witness ==
    /\ Calculated("laplace")
    /\ matrix = ScenarioMatrix
    /\ result.values = <<Fin(560), Fin(575), Fin(550), Fin(550)>>
    /\ result.optimalIndex = 1
    /\ BayesCalculate(Present(UniformVector(4)), matrix).values = result.values

\* C21, as stated: on every matrix every Savage regret (column maximum minus
\* cell) is at least 0, and so are every Savage score and the Savage
\* optimalValue.
C21_SavageRegretsNonNegative ==
    Calculated("savage") =>
        /\ \A i \in 1..matrix.strategiesCount :
               /\ \A j \in 1..matrix.statesCount :
                      NumLeq(Fin(0), SavageRisks(matrix, i)[j])
               /\ NumLeq(Fin(0), result.values[i])
        /\ NumLeq(Fin(0), result.optimalValue)

\* the values v of a result that no other value exceeds (that exceeds no
\* other value, for Savage)
BestValues(r) ==
    {v \in SeqRange(r.values) :
        \A w \in SeqRange(r.values) :
            IF r.type = "savage" THEN NumLeq(v, w) ELSE NumLeq(w, v)}

\* C22: on a matrix with at least one strategy and one state a returned
\* result has one value per strategy; optimalIndex is the smallest index
\* whose value is the maximum of the values (the minimum, for Savage),
\* optimalValue is the value at optimalIndex and strategy is the name at
\* optimalIndex.
C22_FirstOptimalIndex ==
    (/\ call.op = "calculate"
     /\ result.status = "returned"
     /\ matrix.strategiesCount >= 1
     /\ matrix.statesCount >= 1) =>
        /\ Len(result.values) = matrix.strategiesCount
        /\ result.optimalIndex \in 0..(matrix.strategiesCount - 1)
        /\ result.values[result.optimalIndex + 1] \in BestValues(result)
        /\ \A i \in 1..result.optimalIndex :
               result.values[i] \notin BestValues(result)
        /\ result.optimalValue = result.values[result.optimalIndex + 1]
        /\ result.strategy = matrix.strategies[result.optimalIndex + 1]

\* Maximax calculated on a matrix whose two rows share the maximum
C22_Witness ==
    /\ Calculated("maximax")
    /\ matrix.strategiesCount = 2
    /\ matrix.statesCount = 2
    /\ matrix.data[1] /= matrix.data[2]
    /\ result.values = <<Fin(2), Fin(2)>>
    /\ result.optimalIndex = 0
    /\ result.strategy = "Region A"

\* C23: on the 4 x 4 scenario matrix Wald returns 320, 300, 200, 300 with
\* optimal row 0, Maximax returns 780, 900, 950, 850 with optimal row 2, and
\* Hurwitz with alpha = 0.5 returns 550, 600, 575, 575 with optimal row 1.
C23_ScenarioScores ==
    (matrix = ScenarioMatrix /\ call.op = "calculate") =>
        /\ criterion.kind = "wald" =>
               /\ result.status = "returned"
               /\ result.values = <<Fin(320), Fin(300), Fin(200), Fin(300)>>
               /\ result.optimalIndex = 0
               /\ result.optimalValue = Fin(320)
        /\ criterion.kind = "maximax" =>
               /\ result.status = "returned"
               /\ result.values = <<Fin(780), Fin(900), Fin(950), Fin(850)>>
               /\ result.optimalIndex = 2
               /\ result.optimalValue = Fin(950)
        /\ (criterion.kind = "hurwitz" /\ criterion.alpha = Present(Half)) =>
               /\ result.status = "returned"
               /\ result.values = <<Fin(550), Fin(600), Fin(575), Fin(575)>>
               /\ result.optimalIndex = 1
               /\ result.optimalValue = Fin(600)

\* Hurwitz with alpha = 0.5 calculated on the scenario matrix
C23_Witness ==
    /\ matrix = ScenarioMatrix
    /\ Calculated("hurwitz")
    /\ criterion.alpha = Present(Half)
    /\ result.optimalIndex = 1
    /\ result.strategy = "Region B"

----------------------------------------------------------------------------
(* Further properties of the ResultsAnalyzer *)

\* the analyzer holds exactly four recommendations, for A, B, A, A
ScenarioD ==
    /\ Len(recommendations) = 4
    /\ [i \in 1..4 |-> recommendations[i].strategy] = <<"A", "B", "A", "A">>

\* C24: with the four recommendations A, B, A, A the frequency map is
\* {A: 3, B: 1} and the final recommendation is A with frequency 3, total 4,
\* percentage 75, confidence high, hasTie false and no alternatives.
C24_ScenarioDFinal ==
    ScenarioD =>
        /\ Frequency = << <<"A", 3>>, <<"B", 1>> >>
        /\ Final = [strategy     |-> "A",
                    frequency    |-> 3,
                    total        |-> 4,
                    percentage   |-> 75,
                    confidence   |-> "high",
                    hasTie       |-> FALSE,
                    alternatives |-> <<>>]

\* the fourth recommendation of the scenario has just been added
C24_Witness ==
    /\ ScenarioD
    /\ lastOp = "addRecommendation"
    /\ [i \in 1..4 |-> recommendations[i].id] = <<1, 2, 3, 4>>
    /\ Final.strategy = "A"

----------------------------------------------------------------------------
(* The reads of the ResultsAnalyzer as calls: each records what it returns  *)
(* in result and leaves the fields it does not assign as they are.          *)

\* longest recommendation list explored together with the reads
MaxReadRecs == 3

\* [...this.recommendations]
getAllRecommendations(recs) == recs

ReadOps ==
    {"getFrequencyAnalysis", "getFinalRecommendation", "getStatistics",
     "hasConflicts", "getAllRecommendations"}

\* a read named op returns value
Read(op, value) ==
    /\ call' = [op |-> op]
    /\ result' = Returned(op, value)
    /\ lastOp' = op
    /\ clears' = 0
    /\ UNCHANGED <<recommendations, timestamp, analysisType, matrix, criterion,
                   appVars>>

ReadFrequencyAnalysis ==
    Read("getFrequencyAnalysis", getFrequencyAnalysis(recommendations))

ReadFinalRecommendation ==
    Read("getFinalRecommendation", getFinalRecommendation(recommendations))

\* getStatistics that stores the timestamp it reports
ReadStatistics_StampsAnalyzer(now) ==
    /\ call' = [op |-> "getStatistics"]
    /\ result' = Returned("getStatistics",
                     getStatistics(recommendations, analysisType, timestamp, now))
    /\ lastOp' = "getStatistics"
    /\ clears' = 0
    /\ timestamp' = IF timestamp /= Null THEN timestamp ELSE now
    /\ UNCHANGED <<recommendations, analysisType, matrix, criterion, appVars>>

ReadStatistics(now) ==
    Read("getStatistics",
         getStatistics(recommendations, analysisType, timestamp, now))

ReadHasConflicts == Read("hasConflicts", hasConflicts(recommendations))

ReadAllRecommendations ==
    Read("getAllRecommendations", getAllRecommendations(recommendations))

\* a write returns nothing
Written ==
    /\ call' = [op |-> lastOp']
    /\ result' = NoResult
    /\ UNCHANGED <<matrix, criterion, appVars>>

NextReads ==
    \/ \E s \in StrategyInputs, t \in CriterionTypes :
           /\ Len(recommendations) < MaxReadRecs
           /\ addRecommendation(s, t)
           /\ Written
    \/ \E t \in AnalysisTypes, now \in Times :
           setAnalysisType(t, now) /\ Written
    \/ clears < MaxClears /\ clear /\ Written
    \/ ReadFrequencyAnalysis
    \/ ReadFinalRecommendation
    \/ \E now \in Times : ReadStatistics(now)
    \/ ReadHasConflicts
    \/ ReadAllRecommendations

SpecReads == Init /\ [][NextReads]_vars

\* what two answers of the read op have in common when they agree on the
\* frequency map and on the final recommendation
SameAnswer(op, first, second) ==
    IF op = "getStatistics"
    THEN /\ first.distribution = second.distribution
         /\ first.mostFrequent = second.mostFrequent
    ELSE first = second

\* C25: a read leaves the recommendation list, the analysis type and the
\* timestamp as they were, and a read that directly follows the same read
\* returns the same frequency map and the same final recommendation.
C25_ReadsArePure ==
    [][lastOp' \in ReadOps =>
          /\ UNCHANGED <<recommendations, timestamp, analysisType>>
          /\ lastOp = lastOp' =>
                 SameAnswer(lastOp, result.value, result'.value)]_vars

\* getStatistics called twice in a row on an analyzer that holds
\* recommendations and has no timestamp
C25_Witness ==
    /\ lastOp = "getStatistics"
    /\ Len(recommendations) = 2
    /\ timestamp = Null
    /\ result.value.timestamp = "t2"
    /\ result.value.mostFrequent = Final

----------------------------------------------------------------------------
(* DecisionMatrix: writes and validate (src/unnamed/part_001), applied to   *)
(* the matrix the constructor leaves.  An assignment past the end of an     *)
(* array leaves holes at the positions skipped.                             *)

\* largest dimension handed to updateDimensions and largest index handed to
\* updateValue
MaxIndex == 1

\* number of writes applied to one matrix
MaxCalls == 3

\* the texts typed into a cell
TextInputs == {"2", "abc", "Infinity"}

\* parseFloat on the texts
parseFloat(text) ==
    CASE text = "2"                 -> Fin(2)
      [] text = "Infinity"          -> PosInfinity
      [] text = "0"                 -> Fin(0)
      [] text = "1"                 -> Fin(1)
      [] text \in {"0.5", "0.500"}  -> Half
      [] text \in {"0.25", "0.250"} -> Fraction(1, 4)
      [] text \in {"0.2", "0.200"}  -> Fraction(1, 5)
      [] OTHER                      -> NaN

\* array[index] = value for a 0-based index; the positions skipped are holes,
\* written as filler
SetAt(array, index, value, filler) ==
    LET length == IF index + 1 > Len(array) THEN index + 1 ELSE Len(array)
    IN  [k \in 1..length |->
            IF k = index + 1 THEN value
            ELSE IF k \in DOMAIN array THEN array[k] ELSE filler]

\* Array(S).fill().map(() => Array(N).fill(0))
Zeros(S, N) == [i \in 1..S |-> [j \in 1..N |-> Fin(0)]]

\* updateDimensions(S, N): the counts are assigned and initialize() runs
updateDimensions(m, S, N) == MatrixOf(S, N, Zeros(S, N))

\* the parsed value stored as it is
StoredValue_AsParsed(val) == val

\* isNaN(val) ? 0 : val
StoredValue(val) == IF IsNaN(val) THEN Fin(0) ELSE val

\* updateValue(i, j, value): the matrix afterwards
updateValue(m, i, j, value) ==
    LET row == IF HasRow(m, i) THEN m.data[i + 1] ELSE <<>>
    IN  [m EXCEPT !.data =
            SetAt(m.data, i,
                  SetAt(row, j, StoredValue(parseFloat(value)), Hole),
                  NoRow)]

\* DecisionMatrix.clear()
clearMatrix(m) == [m EXCEPT !.data = Zeros(m.strategiesCount, m.statesCount)]

\* validate(): every and its callback skip the holes
validate(m) ==
    \A r \in DOMAIN m.data :
        m.data[r] /= NoRow =>
            \A k \in DOMAIN m.data[r] :
                m.data[r][k] /= Hole => ~IsNaN(m.data[r][k])

InitMatrix ==
    /\ recommendations = <<>>
    /\ timestamp = Null
    /\ analysisType = ""
    /\ lastOp = "constructor"
    /\ clears = 0
    /\ matrix = DefaultMatrix
    /\ criterion = NoCriterion
    /\ result = NoResult
    /\ call = [op |-> "constructor", n |-> 0]
    /\ app = NewApp
    /\ document = Page

CallUpdateDimensions(S, N) ==
    /\ call.n < MaxCalls
    /\ call' = [op |-> "updateDimensions", S |-> S, N |-> N, n |-> call.n + 1]
    /\ matrix' = updateDimensions(matrix, S, N)
    /\ result' = NoResult

CallUpdateValue(i, j, value) ==
    /\ call.n < MaxCalls
    /\ call' = [op |-> "updateValue", i |-> i, j |-> j, value |-> value,
                n |-> call.n + 1]
    /\ matrix' = updateValue(matrix, i, j, value)
    /\ result' = Returned("updateValue", StoredValue(parseFloat(value)))

CallClearMatrix ==
    /\ call.n < MaxCalls
    /\ call' = [op |-> "clear", n |-> call.n + 1]
    /\ matrix' = clearMatrix(matrix)
    /\ result' = NoResult

CallValidate ==
    /\ call' = [op |-> "validate", n |-> call.n]
    /\ result' = Returned("validate", validate(matrix))
    /\ UNCHANGED matrix

NextMatrix ==
    \/ \E S \in 0..MaxIndex, N \in 0..MaxIndex :
           CallUpdateDimensions(S, N) /\ UNCHANGED <<analyzerVars, criterion, appVars>>
    \/ \E i \in 0..MaxIndex, j \in 0..MaxIndex, value \in TextInputs :
           CallUpdateValue(i, j, value) /\ UNCHANGED <<analyzerVars, criterion, appVars>>
    \/ CallClearMatrix /\ UNCHANGED <<analyzerVars, criterion, appVars>>
    \/ CallValidate /\ UNCHANGED <<analyzerVars, criterion, appVars>>

SpecMatrix == InitMatrix /\ [][NextMatrix]_vars

\* C29: after construction and any updateDimensions, updateValue and clear
\* no stored cell is NaN, a text that is not a number is stored as 0, and
\* validate() returns true.
C29_CellsNumericAndValid ==
    /\ \A r \in DOMAIN matrix.data :
           \A k \in DOMAIN matrix.data[r] : matrix.data[r][k] /= NaN
    /\ validate(matrix)
    /\ call.op = "validate" => result.value = TRUE
    /\ (call.op = "updateValue" /\ call.value = "abc") =>
           /\ result.value = Fin(0)
           /\ matrix.data[call.i + 1][call.j + 1] = Fin(0)

\* a text that is not a number written past the end of a matrix without
\* rows: the row and the cell skipped are holes
C29_Witness ==
    /\ call.op = "updateValue"
    /\ call.value = "abc"
    /\ matrix.strategiesCount = 0
    /\ matrix.data = <<NoRow, <<Hole, Fin(0)>> >>
    /\ validate(matrix)

----------------------------------------------------------------------------
(* DecisionAnalysisApp (src/script-refactored.js): the handlers of the      *)
(* wizard and the run of the criteria.  app holds the fields of the         *)
(* application, document the page; a handler is one step.  The cells are    *)
(* those of the constructor, of createMatrix() and of loadExampleData(),    *)
(* and the slider 'alpha' stays where the page puts it.                     *)

\* timeouts of goToStep pending at one time
MaxTimeouts == 1

\* the counts typed into the inputs 'strategies' and 'states'
DimensionInputs == {<<4, 5>>}

\* the texts typed into a probability input
ProbabilityTexts == {""}

\* the value new Date().toISOString() returns during a run
RunTimes == {"t1"}

\* the cards of step 2
Conditions == {"uncertainty", "risk"}

\* the number parseFloat reads from the text (1 / statesCount).toFixed(3):
\* 1 / statesCount rounded to thousandths
UniformValue(N) == Fraction((2000 + N) \div (2 * N), 1000)

\* UIManager.createProbabilityInputs(matrix, probabilities): the inputs
\* prob-0 .. prob-(N-1), each with the number its text stands for
createProbabilityInputs(m, probabilities) ==
    [j \in 1..m.statesCount |->
        IF j \in DOMAIN probabilities THEN probabilities[j]
        ELSE UniformValue(m.statesCount)]

\* updateProbabilities(): parseFloat(probInput?.value) || 0 for each state
updateProbabilities(m, doc) ==
    [j \in 1..m.statesCount |->
        LET value == IF j \in DOMAIN doc.prob THEN doc.prob[j] ELSE NaN
        IN  IF Truthy(value) THEN value ELSE Fin(0)]

\* probabilities.reduce((a, b) => a + b, 0)
SumOf(probabilities) == SumFrom(probabilities, 1, Fin(0))

\* the check of goToStep(3) that lets every vector pass
SumRejected_Never(probabilities) == FALSE

\* Math.abs(sum - 1) > 0.01
SumRejected(probabilities) ==
    LET difference == NumSub(SumOf(probabilities), Fin(1))
    IN  \/ NumGt(difference, Fraction(1, 100))
        \/ NumLt(difference, Fraction(-1, 100))

\* createMatrix(): updateDimensions with the counts of the page; data then
\* has strategiesCount rows and is left as initialize() made it
createMatrix(m, doc) == updateDimensions(m, doc.strategies, doc.states)

NoParams == [alpha |-> Absent, probabilities |-> Absent]

\* criteriaConfig of calculateUncertaintyResults
UncertaintyConfig(a) ==
    << [type |-> "wald", params |-> NoParams],
       [type |-> "maximax", params |-> NoParams],
       [type |-> "savage", params |-> NoParams],
       [type |-> "hurwitz",
        params |-> [alpha |-> Present(a.alpha), probabilities |-> Absent]] >>

\* criteriaConfig of calculateRiskResults, with the normalised probabilities
RiskConfig(a) ==
    LET sumProb == SumOf(a.probabilities)
        normProbs == [j \in DOMAIN a.probabilities |->
                         NumDiv(a.probabilities[j], sumProb)]
    IN  << [type |-> "bayes",
            params |-> [alpha |-> Absent, probabilities |-> Present(normProbs)]],
           [type |-> "laplace", params |-> NoParams] >>

\* the branch of calculateResults: every condition but 'uncertainty' runs
\* the criteria of risk
CriteriaConfig(a) ==
    IF a.selectedCondition = "uncertainty" THEN UncertaintyConfig(a)
    ELSE RiskConfig(a)

\* the try block of one config: createCriterion, then calculate
Evaluate(config, m) ==
    LET created == createCriterion(config.type, config.params)
    IN  IF created.status = "fault" THEN created
        ELSE calculate(created.criterion, m)

\* CriteriaInfo[type]?.name || type in the catch block: the catalogue of
\* the criteria is an object, the read yields a name
CriteriaInfoName(type) == Returned("CriteriaInfo", type)

\* resultsAnalyzer.addRecommendation(name, strategy, type, details): the
\* list afterwards
Appended(recs, strategy, criterionType) ==
    Append(recs,
           [id       |-> Len(recs) + 1,
            strategy |-> IF strategy /= "" THEN strategy ELSE Undetermined,
            type     |-> criterionType])

\* a forEach without the try of each config: the first fault ends the run
RECURSIVE EvaluateFrom_EndsAtFault(_, _, _, _)
EvaluateFrom_EndsAtFault(configs, k, m, recs) ==
    IF k > Len(configs) THEN recs
    ELSE LET outcome == Evaluate(configs[k], m)
         IN  IF outcome.status = "fault" THEN recs
             ELSE EvaluateFrom_EndsAtFault(configs, k + 1, m,
                      Appended(recs, outcome.strategy, configs[k].type))

\* criteriaConfig.forEach from config k on: a result is recorded with its
\* strategy, a fault with the sentinel; a fault of the catch block itself
\* leaves the loop
RECURSIVE EvaluateFrom(_, _, _, _)
EvaluateFrom(configs, k, m, recs) ==
    IF k > Len(configs) THEN recs
    ELSE LET outcome == Evaluate(configs[k], m)
         IN  IF outcome.status /= "fault"
             THEN EvaluateFrom(configs, k + 1, m,
                      Appended(recs, outcome.strategy, configs[k].type))
             ELSE IF CriteriaInfoName(configs[k].type).status = "fault"
             THEN recs
             ELSE EvaluateFrom(configs, k + 1, m,
                      Appended(recs, Undetermined, configs[k].type))

\* the types of the criteria a run recorded
TypesOf(recs) == [k \in DOMAIN recs |-> recs[k].type]

\* calculateResults() that keeps the recommendations of the run before
calculateResults_KeepsList(a, now) ==
    /\ recommendations' =
           EvaluateFrom(CriteriaConfig(a), 1, matrix, recommendations)
    /\ analysisType' = a.selectedCondition
    /\ timestamp' = now
    /\ lastOp' = "addRecommendation"
    /\ clears' = 0

\* calculateResults() of the application a: clear(), setAnalysisType, the
\* criteria of the condition
calculateResults(a, now) ==
    /\ recommendations' = EvaluateFrom(CriteriaConfig(a), 1, matrix, <<>>)
    /\ analysisType' = a.selectedCondition
    /\ timestamp' = now
    /\ lastOp' = "addRecommendation"
    /\ clears' = 0

\* the user changes 'strategies' or 'states': createMatrix()
ChangeDimensions(S, N) ==
    /\ document' = [document EXCEPT !.strategies = S, !.states = N]
    /\ matrix' = createMatrix(matrix, document')
    /\ result' = NoResult
    /\ UNCHANGED <<analyzerVars, criterion, call, app>>

\* loadExampleData(): the counts 4 and 4, createMatrix(), the cells
LoadExampleData ==
    /\ document' = [document EXCEPT !.strategies = 4, !.states = 4]
    /\ matrix' = ScenarioMatrix
    /\ result' = NoResult
    /\ UNCHANGED <<analyzerVars, criterion, call, app>>

\* selectCondition(condition); for 'risk' the probability inputs are made
\* anew and read
SelectCondition(condition) ==
    /\ document' =
           IF condition = "risk"
           THEN [document EXCEPT
                    !.prob = createProbabilityInputs(matrix, app.probabilities)]
           ELSE document
    /\ app' = [app EXCEPT
                  !.selectedCondition = condition,
                  !.probabilities =
                      IF condition = "risk"
                      THEN updateProbabilities(matrix, document')
                      ELSE app.probabilities]
    /\ result' = NoResult
    /\ UNCHANGED <<analyzerVars, criterion, call, matrix>>

\* the user types into the input prob-j, which selectCondition shows for
\* 'risk' and hides for 'uncertainty': updateProbabilities()
InputProbability(j, text) ==
    /\ app.selectedCondition = "risk"
    /\ j + 1 \in DOMAIN document.prob
    /\ document' = [document EXCEPT !.prob[j + 1] = parseFloat(text)]
    /\ app' = [app EXCEPT !.probabilities = updateProbabilities(matrix, document')]
    /\ result' = NoResult
    /\ UNCHANGED <<analyzerVars, criterion, call, matrix>>

\* goToStep(step) up to its setTimeout; result notes whether the step was
\* rejected and how many recommendations the analyzer held before
GoToStep(step, now) ==
    LET read == step = 3 /\ app.selectedCondition = "risk"
        probabilities == IF read THEN updateProbabilities(matrix, document)
                         ELSE app.probabilities
        rejected ==
            \/ step = 2 /\ ~validate(matrix)
            \/ step = 3 /\ app.selectedCondition = ""
            \/ read /\ SumRejected(probabilities)
        after == [app EXCEPT !.probabilities = probabilities,
                             !.alpha = IF step = 3 /\ ~rejected
                                       THEN parseFloat(document.alpha)
                                       ELSE app.alpha]
    IN  /\ rejected \/ Len(document.timeouts) < MaxTimeouts
        /\ app' = after
        /\ IF rejected
           THEN /\ result' = [status |-> "rejected", op |-> "goToStep",
                               step |-> step]
                /\ UNCHANGED <<analyzerVars, document>>
           ELSE /\ document' = [document EXCEPT
                                   !.timeouts = Append(document.timeouts, step)]
                /\ result' = [status   |-> "returned",
                               op       |-> "goToStep",
                               step     |-> step,
                               replaced |-> Len(recommendations)]
                /\ IF step = 3 THEN calculateResults(after, now)
                   ELSE UNCHANGED analyzerVars
        /\ UNCHANGED <<criterion, call, matrix>>

\* the callback of the oldest timeout of goToStep
Timeout ==
    /\ document.timeouts /= <<>>
    /\ app' = [app EXCEPT !.currentStep = Head(document.timeouts)]
    /\ document' = [document EXCEPT !.timeouts = Tail(document.timeouts)]
    /\ result' = NoResult
    /\ UNCHANGED <<analyzerVars, criterion, call, matrix>>

\* calculateResults() called on the application, between the events of
\* the page: no callback of goToStep is pending (the run reads neither the
\* timeouts nor currentStep)
CallCalculateResults(now) ==
    /\ document.timeouts = <<>>
    /\ calculateResults(app, now)
    /\ result' = [status   |-> "returned",
                  op       |-> "calculateResults",
                  replaced |-> Len(recommendations)]
    /\ UNCHANGED <<criterion, call, matrix, app, document>>

\* resetAnalysis() once confirm() returned true
ResetAnalysis ==
    /\ Len(document.timeouts) < MaxTimeouts
    /\ clears < MaxClears
    /\ app' = NewApp
    /\ document' = [document EXCEPT
                       !.strategies = 4, !.states = 5, !.alpha = "0.5",
                       !.timeouts = Append(document.timeouts, 1)]
    /\ matrix' = createMatrix(DefaultMatrix, document')
    /\ clear
    /\ result' = NoResult
    /\ UNCHANGED <<criterion, call>>

InitApp ==
    /\ recommendations = <<>>
    /\ timestamp = Null
    /\ analysisType = ""
    /\ lastOp = "constructor"
    /\ clears = 0
    /\ matrix = DefaultMatrix
    /\ criterion = NoCriterion
    /\ result = NoResult
    /\ call = NoCall
    /\ app = NewApp
    /\ document = Page

NextApp ==
    \/ \E dimensions \in DimensionInputs :
           ChangeDimensions(dimensions[1], dimensions[2])
    \/ LoadExampleData
    \/ \E condition \in Conditions : SelectCondition(condition)
    \/ \E text \in ProbabilityTexts : InputProbability(0, text)
    \/ \E step \in 1..3, now \in RunTimes : GoToStep(step, now)
    \/ Timeout
    \/ \E now \in RunTimes : CallCalculateResults(now)
    \/ ResetAnalysis

SpecApp == InitApp /\ [][NextApp]_vars

----------------------------------------------------------------------------
(* Properties of the runs of the DecisionAnalysisApp *)

\* the last step was a run of calculateResults(), called on the application
\* or by goToStep(3)
Ran ==
    /\ result.status = "returned"
    /\ \/ result.op = "calculateResults"
       \/ result.op = "goToStep" /\ result.step = 3

\* C26: a run records one recommendation per criterion of its condition, in
\* the order wald, maximax, savage, hurwitz for 'uncertainty' and bayes,
\* laplace for 'risk'; a criterion that faults is recorded with the
\* sentinel and the criteria after it are still evaluated.
C26_OnePerCriterionInOrder ==
    Ran =>
        /\ analysisType = "uncertainty" =>
               TypesOf(recommendations) =
                   <<"wald", "maximax", "savage", "hurwitz">>
        /\ analysisType = "risk" =>
               /\ TypesOf(recommendations) = <<"bayes", "laplace">>
               /\ Len(app.probabilities) < matrix.statesCount =>
                      /\ recommendations[1].strategy = Undetermined
                      /\ recommendations[2].strategy =
                             LaplaceCalculate(matrix).strategy

\* a run for 'risk' with fewer probabilities than states: Bayes is recorded
\* as undetermined, Laplace after it with its strategy
C26_Witness ==
    /\ Ran
    /\ analysisType = "risk"
    /\ Len(app.probabilities) < matrix.statesCount
    /\ recommendations[1] =
           [id |-> 1, strategy |-> Undetermined, type |-> "bayes"]
    /\ recommendations[2] =
           [id |-> 2, strategy |-> "Region A", type |-> "laplace"]

\* C27: after a run the analyzer holds the recommendations of that run
\* only: as many as the condition has criteria, no criterion twice, the ids
\* 1, 2, ..., and analysisType is the condition of the run.
C27_RunsDoNotAccumulate ==
    Ran =>
        /\ analysisType = app.selectedCondition
        /\ Len(recommendations) =
               IF app.selectedCondition = "uncertainty" THEN 4 ELSE 2
        /\ \A k \in DOMAIN recommendations : recommendations[k].id = k
        /\ \A k, l \in DOMAIN recommendations :
               recommendations[k].type = recommendations[l].type => k = l

\* a run for 'risk' that replaced the four recommendations of a run for
\* 'uncertainty'
C27_Witness ==
    /\ Ran
    /\ result.replaced = 4
    /\ analysisType = "risk"
    /\ Len(recommendations) = 2
    /\ recommendations[1].id = 1

\* the step is goToStep(3)
WizardStep3(r) ==
    /\ r.status \in {"returned", "rejected"}
    /\ r.op = "goToStep"
    /\ r.step = 3

\* |sum - 1| <= 0.01
SumWithin(probabilities) ==
    LET sum == SumOf(probabilities)
    IN  /\ NumLeq(Fraction(99, 100), sum)
        /\ NumLeq(sum, Fraction(101, 100))

\* C28: goToStep(3) evaluates the criteria of risk only for a probability
\* vector with |sum - 1| <= 0.01, evaluates nothing while no condition is
\* selected, and when it fails leaves the recommendations and currentStep
\* as they were.
C28_WizardGuards ==
    [][WizardStep3(result') =>
          /\ app.selectedCondition = "" => result'.status = "rejected"
          /\ result'.status = "returned" =>
                 /\ app.selectedCondition \in Conditions
                 /\ ("bayes" \in SeqRange(TypesOf(recommendations')))
                        = (app.selectedCondition = "risk")
                 /\ app.selectedCondition = "risk" =>
                        /\ Len(app'.probabilities) = matrix.statesCount
                        /\ SumWithin(app'.probabilities)
          /\ result'.status = "rejected" =>
                 /\ UNCHANGED <<recommendations, analysisType, timestamp>>
                 /\ app'.currentStep = app.currentStep
                 /\ document'.timeouts = document.timeouts]_vars

\* goToStep(3) rejected for the sum of the probabilities while the analyzer
\* holds the four recommendations of an earlier run and step 3 is shown
C28_Witness ==
    /\ WizardStep3(result)
    /\ result.status = "rejected"
    /\ app.selectedCondition = "risk"
    /\ ~SumWithin(app.probabilities)
    /\ Len(recommendations) = 4
    /\ app.currentStep = 3

----------------------------------------------------------------------------
(* The arithmetic of HurwitzCriterion.calculate in IEEE 754 doubles, for    *)
(* an alpha that is not a dyadic fraction.  A double x >= 0 is written      *)
(* [bits, exp]: bits are the binary digits of an odd natural number, least  *)
(* significant first (<<>> for 0), and x = bits * 2^exp.  Every operation   *)
(* is computed exactly and then rounded to 53 significant digits, to        *)
(* nearest, ties to even, as the double operation does.  The cells are      *)
(* natural numbers.                                                         *)

\* the positions of the digits 1
Ones(bits) == {k \in DOMAIN bits : bits[k] = 1}

\* bits without zeros at the significant end
Trim(bits) ==
    IF Ones(bits) = {} THEN <<>>
    ELSE SubSeq(bits, 1, CHOOSE k \in Ones(bits) : \A l \in Ones(bits) : l <= k)

\* the binary digits of the natural number n < 2^31
BitsOf(n) == Trim([k \in 1..31 |-> (n \div 2^(k - 1)) % 2])

Bit(bits, k) == IF k \in DOMAIN bits THEN bits[k] ELSE 0

RECURSIVE AddFrom(_, _, _, _)
AddFrom(a, b, k, carry) ==
    IF k > Len(a) /\ k > Len(b) THEN BitsOf(carry)
    ELSE LET sum == Bit(a, k) + Bit(b, k) + carry
         IN  <<sum % 2>> \o AddFrom(a, b, k + 1, sum \div 2)

\* a + b
BitsAdd(a, b) == AddFrom(a, b, 1, 0)

RECURSIVE SubFrom(_, _, _, _)
SubFrom(a, b, k, borrow) ==
    IF k > Len(a) THEN <<>>
    ELSE LET difference == a[k] - Bit(b, k) - borrow
         IN  IF difference < 0
             THEN <<difference + 2>> \o SubFrom(a, b, k + 1, 1)
             ELSE <<difference>> \o SubFrom(a, b, k + 1, 0)

\* a - b for a >= b
BitsSub(a, b) == Trim(SubFrom(a, b, 1, 0))

RECURSIVE TimesFrom(_, _, _, _)
TimesFrom(a, n, k, carry) ==
    IF k > Len(a) THEN BitsOf(carry)
    ELSE LET product == a[k] * n + carry
         IN  <<product % 2>> \o TimesFrom(a, n, k + 1, product \div 2)

\* a * n for a natural number n
BitsTimes(a, n) == Trim(TimesFrom(a, n, 1, 0))

\* a < b seen from digit k down, for a and b of the same length
RECURSIVE LessFrom(_, _, _)
LessFrom(a, b, k) ==
    IF k = 0 THEN FALSE
    ELSE IF a[k] /= b[k] THEN a[k] < b[k]
    ELSE LessFrom(a, b, k - 1)

\* a < b
BitsLess(a, b) ==
    \/ Len(a) < Len(b)
    \/ Len(a) = Len(b) /\ LessFrom(a, b, Len(a))

DoubleZero == [bits |-> <<>>, exp |-> 0]

\* bits * 2^exp with an odd bits that ends with its most significant 1
Canonical(bits, exp) ==
    IF Ones(bits) = {} THEN DoubleZero
    ELSE LET low == CHOOSE k \in Ones(bits) : \A l \in Ones(bits) : k <= l
         IN  [bits |-> SubSeq(Trim(bits), low, Len(Trim(bits))),
              exp  |-> exp + low - 1]

\* the digits of x at the exponent exp <= x.exp
DigitsAt(x, exp) ==
    IF x.bits = <<>> THEN <<>>
    ELSE [k \in 1..(x.exp - exp) |-> 0] \o x.bits

SmallerExp(x, y) == IF x.exp < y.exp THEN x.exp ELSE y.exp

\* x < y
DoubleLess(x, y) ==
    BitsLess(DigitsAt(x, SmallerExp(x, y)), DigitsAt(y, SmallerExp(x, y)))

\* the exact value rounded to the nearest double, ties to even
RoundToDouble(x) ==
    IF Len(x.bits) <= 53 THEN x
    ELSE LET drop == Len(x.bits) - 53
             kept == SubSeq(x.bits, drop + 1, Len(x.bits))
             sticky == \E k \in 1..(drop - 1) : x.bits[k] = 1
             up == x.bits[drop] = 1 /\ (sticky \/ kept[1] = 1)
         IN  Canonical(IF up THEN BitsAdd(kept, <<1>>) ELSE kept,
                       x.exp + drop)

\* the double of a natural number below 2^31
DoubleOfNat(n) == Canonical(BitsOf(n), 0)

\* the 16 binary digits of r / d after the point, for r < d <= 16, least
\* significant first
Digits16(r, d) == [k \in 1..16 |-> (((r * 2^16) \div d) \div 2^(k - 1)) % 2]

\* what r / d leaves after 16 digits, as a numerator over d
Rest16(r, d) == (r * 2^16) % d

\* the first 64 binary digits of r / d for r < d <= 16, least significant
\* first, below them one digit more that is 1 when digits other than 0
\* follow
FractionBits(r, d) ==
    LET r1 == Rest16(r, d)
        r2 == Rest16(r1, d)
        r3 == Rest16(r2, d)
    IN  <<IF Rest16(r3, d) = 0 THEN 0 ELSE 1>>
            \o Digits16(r3, d) \o Digits16(r2, d)
            \o Digits16(r1, d) \o Digits16(r, d)

\* the double a decimal literal for n / d denotes, 0 <= n <= d <= 16: the
\* nearest double
DoubleOf(n, d) ==
    IF n = d THEN DoubleOfNat(1)
    ELSE RoundToDouble(Canonical(FractionBits(n, d), -65))

\* x + y in doubles
DoubleAdd(x, y) ==
    LET exp == SmallerExp(x, y)
    IN  RoundToDouble(Canonical(BitsAdd(DigitsAt(x, exp), DigitsAt(y, exp)),
                                exp))

\* x - y in doubles, x >= y
DoubleSub(x, y) ==
    LET exp == SmallerExp(x, y)
    IN  RoundToDouble(Canonical(BitsSub(DigitsAt(x, exp), DigitsAt(y, exp)),
                                exp))

\* x * n in doubles for a natural number n
DoubleTimes(x, n) == RoundToDouble(Canonical(BitsTimes(x.bits, n), x.exp))

\* alpha * maxVal + (1 - alpha) * minVal in doubles, alpha the double of the
\* fraction given and the cells natural numbers
HurwitzDouble(alpha, minVal, maxVal) ==
    LET a == DoubleOf(alpha[1], alpha[2])
    IN  DoubleAdd(DoubleTimes(a, maxVal[1]),
                  DoubleTimes(DoubleSub(DoubleOfNat(1), a), minVal[1]))

\* the values of HurwitzCriterion.calculate in doubles
HurwitzDoubles(alpha, m) ==
    [i \in 1..m.strategiesCount |->
        HurwitzDouble(alpha, getRowMin(m, i - 1), getRowMax(m, i - 1))]

\* the alphas of the criteria: 0.2 is not a dyadic fraction
HurwitzAlphas == {Fin(0), Fraction(1, 5), Half, Fin(1)}

\* the cells of the matrices
HurwitzCells == {Fin(3), Fin(13)}

\* the matrices new DecisionMatrix(S, N) gives once the cells are filled
HurwitzMatrices ==
    UNION {{MatrixOf(S, N, data) :
               data \in [1..S -> [1..N -> HurwitzCells]]} :
           S \in 1..MaxStrategies, N \in 1..MaxStates}

InitHurwitz ==
    /\ recommendations = <<>>
    /\ timestamp = Null
    /\ analysisType = ""
    /\ lastOp = "constructor"
    /\ clears = 0
    /\ matrix \in HurwitzMatrices
    /\ criterion \in {HurwitzCriterion(Present(alpha)) : alpha \in HurwitzAlphas}
    /\ result = NoResult
    /\ call = NoCall
    /\ app = NewApp
    /\ document = Page

\* criterion.calculate(matrix) of the Hurwitz criterion
CallHurwitz ==
    /\ call' = [op |-> "calculate"]
    /\ result' = Returned("calculate", HurwitzDoubles(criterion.alpha[1], matrix))
    /\ UNCHANGED <<analyzerVars, appVars, matrix, criterion>>

\* matrix.getRowMin(i) and matrix.getRowMax(i) of a row
CallRowExtremes(i) ==
    /\ call' = [op |-> "getRowMin, getRowMax", index |-> i]
    /\ result' = Returned("getRowMin, getRowMax",
                          <<getRowMin(matrix, i), getRowMax(matrix, i)>>)
    /\ UNCHANGED <<analyzerVars, appVars, matrix, criterion>>

NextHurwitz ==
    \/ CallHurwitz
    \/ \E i \in 0..(MaxStrategies - 1) : CallRowExtremes(i)

SpecHurwitz == InitHurwitz /\ [][NextHurwitz]_vars

\* C30: for every matrix with S >= 1, N >= 1 and every alpha in [0, 1] the
\* Hurwitz score of a row lies between the row's minimum (its Wald score)
\* and the row's maximum (its Maximax score).
C30_HurwitzBetweenWaldAndMaximax ==
    call.op = "calculate" =>
        \A i \in 1..matrix.strategiesCount :
            /\ ~DoubleLess(result.value[i],
                           DoubleOfNat(getRowMin(matrix, i - 1)[1]))
            /\ ~DoubleLess(DoubleOfNat(getRowMax(matrix, i - 1)[1]),
                           result.value[i])

====
